---- MODULE Spec2Model ----
(***************************************************************************)
(* Model of the interp3d crate (src/src/lib.rs, src/src/utils.rs): the     *)
(* Interp3D grid construction (setup, grid_point_pos), the sampling pass   *)
(* (generate_data) and the ghost-layer propagation (set_data_outermost).   *)
(*                                                                         *)
(* f64 values are modelled as exact rationals extended with the IEEE-754   *)
(* special values +inf, -inf and NaN; rounding is not modelled.  The       *)
(* samples in data are 0.0 or what f returned, which is integral for the   *)
(* sampling closures explored, and are held as plain integers.  A Vec is   *)
(* a function over 0..len-1, so indices read as in the source.             *)
(***************************************************************************)
EXTENDS Integers, Sequences, FiniteSets, TLC

\* nx .. data: the fields of Interp3D (tx, ty, tz are never read or written)
\* calls:   the calls made to f by the latest call, in order
\* outcome: "default", "ok", or which call panicked
\* prov:    the config that nx/ny/nz, x/y/z and data were last written from
VARIABLES nx, ny, nz, x, y, z, data, calls, outcome, prov

vars == <<nx, ny, nz, x, y, z, data, calls, outcome, prov>>

(***************************************************************************)
(* Bounds of the explored inputs.                                          *)
(***************************************************************************)
\* largest configured node count per axis when the axes differ
MaxN == 4
\* largest configured node count of the z axis when the axes differ
MaxNZ == 2
\* largest configured node count of the x axis when only its config varies
MaxRichN == 5

(***************************************************************************)
(* f64 arithmetic.                                                         *)
(***************************************************************************)
Abs(a) == IF a < 0 THEN -a ELSE a

Sgn(a) == IF a < 0 THEN -1 ELSE IF a > 0 THEN 1 ELSE 0

RECURSIVE Gcd(_, _)
Gcd(a, b) == IF b = 0 THEN a ELSE Gcd(b, a % b)

NaN == [k |-> "nan", n |-> 0, d |-> 1]

Inf(s) == [k |-> "inf", n |-> s, d |-> 1]

\* the rational n/d (d # 0) in lowest terms with a positive denominator
Fin(n, d) ==
    LET g == Gcd(Abs(n), Abs(d))
    IN  [k |-> "fin", n |-> (Sgn(d) * n) \div g, d |-> Abs(d) \div g]

F(i) == [k |-> "fin", n |-> i, d |-> 1]

FSgn(a) == Sgn(a.n)

FNeg(a) == IF a.k = "nan" THEN NaN ELSE [a EXCEPT !.n = -a.n]

FAdd(a, b) ==
    IF a.k = "nan" \/ b.k = "nan" THEN NaN
    ELSE IF a.k = "inf" /\ b.k = "inf" THEN (IF a.n = b.n THEN a ELSE NaN)
    ELSE IF a.k = "inf" THEN a
    ELSE IF b.k = "inf" THEN b
    ELSE Fin(a.n * b.d + b.n * a.d, a.d * b.d)

FSub(a, b) == FAdd(a, FNeg(b))

FMul(a, b) ==
    IF a.k = "nan" \/ b.k = "nan" THEN NaN
    ELSE IF a.k = "inf" \/ b.k = "inf"
         THEN (IF FSgn(a) * FSgn(b) = 0 THEN NaN ELSE Inf(FSgn(a) * FSgn(b)))
    ELSE Fin(a.n * b.n, a.d * b.d)

\* a zero divisor is +0.0: the only zero divisor of the program is (n-4) as f64
FDiv(a, b) ==
    IF a.k = "nan" \/ b.k = "nan" THEN NaN
    ELSE IF a.k = "inf"
         THEN (IF b.k = "inf" THEN NaN
               ELSE IF b.n = 0 THEN a ELSE Inf(FSgn(a) * FSgn(b)))
    ELSE IF b.k = "inf" THEN F(0)
    ELSE IF b.n = 0 THEN (IF a.n = 0 THEN NaN ELSE Inf(FSgn(a)))
    ELSE Fin(a.n * b.d, a.d * b.n)

\* the f64 comparison operators: every comparison with NaN is false
FEq(a, b) == a.k # "nan" /\ b.k # "nan" /\ a = b

FLt(a, b) ==
    /\ a.k # "nan" /\ b.k # "nan"
    /\ a # b
    /\ IF a.k = "inf" THEN a.n < 0
       ELSE IF b.k = "inf" THEN b.n > 0
       ELSE a.n * b.d < b.n * a.d

RECURSIVE Pow2(_)
Pow2(e) == IF e = 0 THEN 1 ELSE 2 * Pow2(e - 1)

\* 2.0f64.powf(k) for an integral k
Powf2(k) == IF k >= 0 THEN Fin(Pow2(k), 1) ELSE Fin(1, Pow2(-k))

\* (LN_2 * t).exp() = 2^t, for t integral or special
ExpLn2(t) ==
    IF t.k = "nan" THEN NaN
    ELSE IF t.k = "inf" THEN (IF t.n > 0 THEN Inf(1) ELSE F(0))
    ELSE Powf2(t.n)

(***************************************************************************)
(* Configurations (utils.rs).                                              *)
(***************************************************************************)
Linear == [kind |-> "Linear", k |-> 0]

Exponential(k) == [kind |-> "Exponential", k |-> k]

GridSpacing == {Linear} \cup {Exponential(k) : k \in {-1, 0, 1}}

DataGenConfSingle(n, min, max, spacing) ==
    [n |-> n, min |-> min, max |-> max, spacing |-> spacing]

DataGenConf(cx, cy, cz) == [x |-> cx, y |-> cy, z |-> cz]

Dirs == {"X", "Y", "Z"}

\* the sampling closure passed as f: FnMut(f64, f64, f64) -> f64.  It
\* increments a captured counter (the doc example's mutable_outside_val) and
\* returns it, so every sample names the call that produced it.
ApplyF(ncalls, px, py, pz) == ncalls + 1

\* the exponent i/d*k is exactly representable: d = 0 or d divides k
Representable(c) ==
    \/ c.spacing.kind = "Linear"
    \/ c.spacing.k = 0
    \/ c.n < 2
    \/ c.n = 4
    \/ c.spacing.k % Abs(c.n - 4) = 0

AxisConfs ==
    {c \in {DataGenConfSingle(n, 0, 10, s) :
              n \in 1..MaxRichN, s \in GridSpacing} :
        Representable(c)}

\* every spacing law on the x axis, beside two small linear axes
RichConfs ==
    {DataGenConf(c, DataGenConfSingle(2, 0, 10, Linear),
                    DataGenConfSingle(2, 0, 10, Linear)) : c \in AxisConfs}

\* node counts and ranges that differ between the directions
MixedConfs ==
    {DataGenConf(DataGenConfSingle(a, 0, 10, Linear),
                 DataGenConfSingle(b, -3, 5, Linear),
                 DataGenConfSingle(c, 1, 2, Linear)) :
        a \in 1..MaxN, b \in 1..MaxN, c \in 1..MaxNZ}

Confs == RichConfs \cup MixedConfs

(***************************************************************************)
(* Interp3D (lib.rs).                                                      *)
(***************************************************************************)
VLen(v) == Cardinality(DOMAIN v)

EmptyVec == [p \in {} |-> 0]

\* Interp3D::index
index(i, j, k, ny_, nz_) == i * ny_ * nz_ + j * nz_ + k

\* Interp3D::grid_point_pos
grid_point_pos(dir, i, conf) ==
    LET c == CASE dir = "X" -> conf.x
               [] dir = "Y" -> conf.y
               [] dir = "Z" -> conf.z
        d == F(c.n - 4)
        range == FSub(F(c.max), F(c.min))
    IN  IF c.spacing.kind = "Exponential" /\ c.spacing.k # 0
        THEN FAdd(F(c.min),
                  FDiv(FMul(range,
                            ExpLn2(FMul(FDiv(F(i), d), F(c.spacing.k)))),
                       FSub(Powf2(c.spacing.k), F(1))))
        ELSE FAdd(F(c.min), FDiv(FMul(range, F(i)), d))

\* the push loop of setup for one direction: slot m holds offset m-1
PushPositions(dir, len, conf) ==
    [m \in 0..(len - 1) |-> grid_point_pos(dir, m - 1, conf)]

\* the three ghost assignments of setup for one direction, in program order
ExtrapolateGhosts(a, len) ==
    LET a1 == [a EXCEPT ![0] = FSub(FMul(F(2), a[1]), a[2])]
        a2 == [a1 EXCEPT ![len - 2] =
                   FSub(FMul(F(2), a1[len - 3]), a1[len - 4])]
    IN  [a2 EXCEPT ![len - 1] = FSub(FMul(F(2), a2[len - 2]), a2[len - 3])]

\* the node-count check of setup
TooFewPoints(nx_, ny_, nz_) == nx_ < 2 + 3 \/ ny_ < 2 + 3 \/ nz_ < 2 + 3

\* Interp3D::setup past the check: the fields it builds
setup(conf) ==
    LET nx_ == conf.x.n + 3
        ny_ == conf.y.n + 3
        nz_ == conf.z.n + 3
    IN  [nx |-> nx_, ny |-> ny_, nz |-> nz_,
         x |-> ExtrapolateGhosts(PushPositions("X", nx_, conf), nx_),
         y |-> ExtrapolateGhosts(PushPositions("Y", ny_, conf), ny_),
         z |-> ExtrapolateGhosts(PushPositions("Z", nz_, conf), nz_),
         data |-> [p \in 0..(nx_ * ny_ * nz_ - 1) |-> 0]]

\* a Rust range lo..hi (hi exclusive) as <<lo, hi>>
RangeLen(r) == IF r[2] > r[1] THEN r[2] - r[1] ELSE 0

\* the index triple of iteration p (from 0) of
\*   for i in ri { for j in rj { for k in rk { .. } } }
LoopTriple(p, ri, rj, rk) ==
    <<ri[1] + (p \div (RangeLen(rj) * RangeLen(rk))),
      rj[1] + ((p \div RangeLen(rk)) % RangeLen(rj)),
      rk[1] + (p % RangeLen(rk))>>

LoopCount(ri, rj, rk) == RangeLen(ri) * RangeLen(rj) * RangeLen(rk)

\* a sampling pass that runs one slot too far on every axis
InteriorRangeOffByOne(len) == <<1, len - 1>>

\* the loop range 1..self.n-2 of the sampling pass
InteriorRange(len) == <<1, len - 2>>

\* the triple (i, j, k) stored at slot q: the inverse of index
unindex(q, ny_, nz_) == <<q \div (ny_ * nz_), (q \div nz_) % ny_, q % nz_>>

\* the iteration (from 0) of the nested loops that visits triple t, or -1
IterationOf(t, ri, rj, rk) ==
    IF /\ ri[1] <= t[1] /\ t[1] < ri[2]
       /\ rj[1] <= t[2] /\ t[2] < rj[2]
       /\ rk[1] <= t[3] /\ t[3] < rk[2]
    THEN (t[1] - ri[1]) * RangeLen(rj) * RangeLen(rk)
           + (t[2] - rj[1]) * RangeLen(rk) + (t[3] - rk[1])
    ELSE -1

\* the calls the sampling loops of generate_data make to f, in order:
\* iteration p-1 passes (x[i], y[j], z[k]) of its triple
SampleCalls(s) ==
    LET ri == InteriorRange(s.nx)
        rj == InteriorRange(s.ny)
        rk == InteriorRange(s.nz)
    IN  [p \in 1..LoopCount(ri, rj, rk) |->
            LET t == LoopTriple(p - 1, ri, rj, rk)
            IN  [i |-> t[1], j |-> t[2], k |-> t[3],
                 x |-> s.x[t[1]], y |-> s.y[t[2]], z |-> s.z[t[3]],
                 ret |-> ApplyF(p - 1, s.x[t[1]], s.y[t[2]], s.z[t[3]])]]

\* data after the sampling loops: the slot index(i,j,k) of every visited
\* triple holds what f returned for it, every other slot is untouched
SampleLoop(s) ==
    LET ri == InteriorRange(s.nx)
        rj == InteriorRange(s.ny)
        rk == InteriorRange(s.nz)
        cs == SampleCalls(s)
    IN  [s EXCEPT
           !.calls = cs,
           !.data = [q \in DOMAIN s.data |->
                       LET p == IterationOf(unindex(q, s.ny, s.nz), ri, rj, rk)
                       IN  IF p >= 0 THEN cs[p + 1].ret ELSE s.data[q]]]

\* the clamped indices of one iteration of set_data_outermost
i_temp(i, nx_) == IF i = 0 THEN 1 ELSE IF i > nx_ - 3 THEN nx_ - 3 ELSE i

j_temp(j, nx_, ny_) == IF j = 0 THEN 1 ELSE IF j > nx_ - 3 THEN ny_ - 3 ELSE j

k_temp(k, nz_) == IF k = 0 THEN 1 ELSE IF k > nz_ - 3 THEN nz_ - 3 ELSE k

\* Interp3D::set_data_outermost.  Its loops visit the slots in ascending
\* order (iteration q is slot q) and update data in place, so a read of a
\* slot below q sees what that slot's own iteration left there.
set_data_outermost(d, nx_, ny_, nz_) ==
    LET out[q \in DOMAIN d] ==
            LET t == unindex(q, ny_, nz_)
                it == i_temp(t[1], nx_)
                jt == j_temp(t[2], nx_, ny_)
                kt == k_temp(t[3], nz_)
                from == index(it, jt, kt, ny_, nz_)
            IN  IF t[1] # it \/ t[2] # jt \/ t[3] # kt
                THEN (IF from < q THEN out[from] ELSE d[from])
                ELSE d[q]
    IN  [q \in DOMAIN d |-> out[q]]

\* the fields after a generate_data call that does not panic
generated(conf) ==
    LET s == SampleLoop(setup(conf) @@ [calls |-> << >>])
    IN  [s EXCEPT !.data = set_data_outermost(s.data, s.nx, s.ny, s.nz)]

\* #[derive(Default)]
Init ==
    /\ nx = 0 /\ ny = 0 /\ nz = 0
    /\ x = EmptyVec /\ y = EmptyVec /\ z = EmptyVec
    /\ data = EmptyVec
    /\ calls = << >>
    /\ outcome = "default"
    /\ prov = [dims |-> << >>, grid |-> << >>, data |-> << >>]

\* ip.generate_data(f, &conf) on the existing interpolator.  A panic ends
\* the run: no further call is explored on the interpolator it leaves.
generate_data(conf) ==
    /\ outcome \in {"default", "ok"}
    /\ IF TooFewPoints(conf.x.n + 3, conf.y.n + 3, conf.z.n + 3)
       THEN \* setup stores nx, ny, nz and then panics
            /\ nx' = conf.x.n + 3
            /\ ny' = conf.y.n + 3
            /\ nz' = conf.z.n + 3
            /\ UNCHANGED <<x, y, z, data>>
            /\ calls' = << >>
            /\ outcome' = "generate_data panicked"
            /\ prov' = [prov EXCEPT !.dims = <<conf>>]
       ELSE LET g == generated(conf)
            IN  /\ nx' = g.nx /\ ny' = g.ny /\ nz' = g.nz
                /\ x' = g.x /\ y' = g.y /\ z' = g.z
                /\ data' = g.data
                /\ calls' = g.calls
                /\ outcome' = "ok"
                /\ prov' = [dims |-> <<conf>>, grid |-> <<conf>>,
                            data |-> <<conf>>]

\* let ip = Interp3D::from_config(f, &conf): a fresh interpolator replaces
\* the default one, or the panic unwinds and nothing is bound
from_config(conf) ==
    /\ outcome = "default"
    /\ IF TooFewPoints(conf.x.n + 3, conf.y.n + 3, conf.z.n + 3)
       THEN /\ UNCHANGED <<nx, ny, nz, x, y, z, data, prov>>
            /\ calls' = << >>
            /\ outcome' = "from_config panicked"
       ELSE LET g == generated(conf)
            IN  /\ nx' = g.nx /\ ny' = g.ny /\ nz' = g.nz
                /\ x' = g.x /\ y' = g.y /\ z' = g.z
                /\ data' = g.data
                /\ calls' = g.calls
                /\ outcome' = "ok"
                /\ prov' = [dims |-> <<conf>>, grid |-> <<conf>>,
                            data |-> <<conf>>]

GenerateData == \E conf \in Confs : generate_data(conf)

FromConfig == \E conf \in Confs : from_config(conf)

Next == GenerateData \/ FromConfig

Spec == Init /\ [][Next]_vars

(***************************************************************************)
(* Properties.                                                             *)
(***************************************************************************)
\* the config of the latest call
LastConf == prov.dims[1]

\* axis dir of the interpolator: its config, its stored length and its array
Axis(dir) ==
    CASE dir = "X" -> [c |-> LastConf.x, len |-> nx, a |-> x]
      [] dir = "Y" -> [c |-> LastConf.y, len |-> ny, a |-> y]
      [] dir = "Z" -> [c |-> LastConf.z, len |-> nz, a |-> z]

IsInterior(i, len) == 1 <= i /\ i <= len - 3

\* an index clamped into the interior range [1, len-3] of its own axis
Clamped(i, len) == IF i < 1 THEN 1 ELSE IF i > len - 3 THEN len - 3 ELSE i

\* i, j, k precedes i2, j2, k2 in row-major order
RowMajorBefore(a, b) ==
    \/ a.i < b.i
    \/ a.i = b.i /\ a.j < b.j
    \/ a.i = b.i /\ a.j = b.j /\ a.k < b.k

\* C1: after generate_data returns, every interior entry (i,j,k) holds the
\* value that the call f(x[i], y[j], z[k]) made for that node returned;
\* the boundary propagation leaves the interior entries alone.
C1_InteriorHoldsSample ==
    outcome = "ok" =>
        \A i \in 1..(nx - 3), j \in 1..(ny - 3), k \in 1..(nz - 3) :
            \E p \in 1..Len(calls) :
                /\ calls[p].i = i /\ calls[p].j = j /\ calls[p].k = k
                /\ calls[p].x = x[i] /\ calls[p].y = y[j] /\ calls[p].z = z[k]
                /\ data[index(i, j, k, ny, nz)] = calls[p].ret

\* C2: after generate_data returns, every entry outside the interior cuboid
\* on one or more axes equals the entry whose indices are clamped, each
\* independently, into the interior range of its own axis.
C2_GhostEqualsClamped ==
    outcome = "ok" =>
        \A i \in 0..(nx - 1), j \in 0..(ny - 1), k \in 0..(nz - 1) :
            ~(IsInterior(i, nx) /\ IsInterior(j, ny) /\ IsInterior(k, nz)) =>
                data[index(i, j, k, ny, nz)] =
                    data[index(Clamped(i, nx), Clamped(j, ny), Clamped(k, nz),
                               ny, nz)]

\* C3: the calls one generate_data makes to f are exactly the row-major
\* enumeration of the interior triples: n_x * n_y * n_z calls (the configured
\* node counts), each for an interior node with that node's coordinates, each
\* later in row-major order than the call before it.
C3_CallsRowMajorInterior ==
    outcome = "ok" =>
        /\ Len(calls) = LastConf.x.n * LastConf.y.n * LastConf.z.n
        /\ \A p \in 1..Len(calls) :
              /\ calls[p].i \in 1..LastConf.x.n
              /\ calls[p].j \in 1..LastConf.y.n
              /\ calls[p].k \in 1..LastConf.z.n
              /\ calls[p].x = x[calls[p].i]
              /\ calls[p].y = y[calls[p].j]
              /\ calls[p].z = z[calls[p].k]
              /\ p > 1 => RowMajorBefore(calls[p - 1], calls[p])

\* a generate_data over three different node counts has made its calls
C3_Witness ==
    /\ outcome = "ok"
    /\ LastConf.x.n = 3 /\ LastConf.y.n = 4 /\ LastConf.z.n = 2
    /\ Len(calls) = 24
    /\ calls[24].i = 3 /\ calls[24].j = 4 /\ calls[24].k = 2

\* C4: for every valid axis config the coordinate array has length n+3 and
\* is strictly increasing, ghost slots included.
C4_AxisStrictlyIncreasing ==
    outcome = "ok" =>
        \A dir \in Dirs :
            /\ VLen(Axis(dir).a) = Axis(dir).c.n + 3
            /\ \A m \in 0..(Axis(dir).len - 2) :
                  FLt(Axis(dir).a[m], Axis(dir).a[m + 1])

\* C5: on a Linear axis the n interior nodes (slots 1..n) are evenly spaced
\* with slot 1 = min and slot n = max, so they lie in [min, max]; n = 5,
\* min = 0, max = 10 gives [-2.5, 0, 2.5, 5, 7.5, 10, 12.5, 15].
C5_LinearInteriorSpansRange ==
    outcome = "ok" =>
        \A dir \in Dirs :
            LET c == Axis(dir).c
                a == Axis(dir).a
            IN  c.spacing.kind = "Linear" =>
                    /\ FEq(a[1], F(c.min))
                    /\ FEq(a[c.n], F(c.max))
                    /\ \A m \in 1..(c.n - 1) :
                          FEq(FSub(a[m + 1], a[m]),
                              Fin(c.max - c.min, c.n - 1))
                    /\ (c.n = 5 /\ c.min = 0 /\ c.max = 10) =>
                          a = [m \in 0..7 |-> Fin(5 * (m - 1), 2)]

\* C9: after setup the ghost coordinates of every axis satisfy
\* a[0] = 2*a[1] - a[2], a[len-2] = 2*a[len-3] - a[len-4] and
\* a[len-1] = 2*a[len-2] - a[len-3], compared as f64 values.
C9_GhostExtrapolation ==
    outcome = "ok" =>
        \A dir \in Dirs :
            LET a == Axis(dir).a
                len == Axis(dir).len
            IN  /\ FEq(a[0], FSub(FMul(F(2), a[1]), a[2]))
                /\ FEq(a[len - 2], FSub(FMul(F(2), a[len - 3]), a[len - 4]))
                /\ FEq(a[len - 1], FSub(FMul(F(2), a[len - 2]), a[len - 3]))

\* C10: for Exponential(k), k # 0, the position of offset i is
\* min + (max-min) * (2^(i/d*k) - 1) / (2^k - 1) for every i in [-1, n+1],
\* d the normalizing denominator n-4 (taken where d # 0 and i*k/d is an
\* integer); the interior slots of the array hold these positions.
C10_ExponentialFormula ==
    outcome = "ok" =>
        \A dir \in Dirs :
            LET c == Axis(dir).c
                d == c.n - 4
                claimed(i) ==
                    FAdd(F(c.min),
                         FDiv(FMul(F(c.max - c.min),
                                   FSub(Powf2(Fin(i * c.spacing.k, d).n), F(1))),
                              FSub(Powf2(c.spacing.k), F(1))))
            IN  (c.spacing.kind = "Exponential" /\ c.spacing.k # 0 /\ d # 0) =>
                    /\ \A i \in (-1)..(c.n + 1) :
                          FEq(grid_point_pos(dir, i, LastConf), claimed(i))
                    /\ \A m \in 1..c.n : FEq(Axis(dir).a[m], claimed(m - 1))

\* C6: a call given a config with an axis of n < 2 fails and leaves every
\* stored field as it was before the call.
C6_FailedCallLeavesFields ==
    [][outcome' \in {"generate_data panicked", "from_config panicked"} =>
          /\ nx' = nx /\ ny' = ny /\ nz' = nz
          /\ x' = x /\ y' = y /\ z' = z
          /\ data' = data]_vars

\* C7: between calls the grid and the field are consistent: the stored
\* lengths agree with nx, ny, nz and the arrays, and dimensions, coordinates
\* and samples all come from the same config.
C7_GridFieldConsistent ==
    /\ VLen(x) = nx /\ VLen(y) = ny /\ VLen(z) = nz
    /\ VLen(data) = nx * ny * nz
    /\ prov.dims = prov.grid
    /\ prov.grid = prov.data

====
